---- MODULE Spec2Model ----
(***************************************************************************)
(* Model of fix_lines.py: for each name of a fixed list, if the file       *)
(* exists, read it as bytes, replace every CR LF by LF and write it back,  *)
(* printing a notice before and after; otherwise print a skip notice.      *)
(***************************************************************************)
EXTENDS Integers, Sequences, FiniteSets, TLC

VARIABLES fs, orig, idx, pc, content, handles, out, log, status, input, results

vars == <<fs, orig, idx, pc, content, handles, out, log, status, input, results>>
runVars == <<fs, orig, idx, pc, content, handles, out, log, status>>
passVars == <<input, results>>

(* ---------------------------------------------------------------- bytes *)
CR == 13
LF == 10
CRLF == <<CR, LF>>

\* Bytes the model draws file contents from: CR, LF and one other byte ('x').
Byte == {CR, LF, 120}

\* Bounds of the model.
MaxBytes == 3     \* total number of bytes in the working directory
MaxLen == 4       \* longest input of the pure transform
MaxPasses == 2    \* how many times the transform is applied in a row

BSeq(n) == UNION {[1..k -> Byte] : k \in 0..n}

(* --------------------------------------------------- bytes.replace model *)
\* Lowest index >= start at which sub occurs in s, 0 when there is none.
Find(s, sub, start) ==
  LET hits == {i \in start..(Len(s) - Len(sub) + 1) :
                 SubSeq(s, i, i + Len(sub) - 1) = sub}
  IN IF hits = {} THEN 0 ELSE CHOOSE i \in hits : \A j \in hits : i <= j

RECURSIVE ReplaceFrom(_, _, _, _)
ReplaceFrom(s, old, new, start) ==
  LET pos == Find(s, old, start)
  IN IF pos = 0 THEN SubSeq(s, start, Len(s))
     ELSE SubSeq(s, start, pos - 1) \o new
            \o ReplaceFrom(s, old, new, pos + Len(old))

\* Mutant: only the first occurrence is replaced (replace(old, new, 1)).
ReplaceFirstOnly(s, old, new) ==
  LET pos == Find(s, old, 1)
  IN IF pos = 0 THEN s
     ELSE SubSeq(s, 1, pos - 1) \o new \o SubSeq(s, pos + Len(old), Len(s))

\* content.replace(old, new): every non-overlapping occurrence, left to right.
Replace(s, old, new) == ReplaceFrom(s, old, new, 1)

\* Mutant: the replacement byte is CR instead of LF.
TransformToCR(c) == Replace(c, CRLF, <<CR>>)

\* Mutant: the two arguments of replace are swapped (LF becomes CR LF).
TransformSwapped(c) == Replace(c, <<LF>>, CRLF)

\* Mutant: the pair is deleted instead of replaced by LF.
TransformDelete(c) == Replace(c, CRLF, <<>>)

\* content = content.replace(b'\r\n', b'\n')
Transform(c) == Replace(c, CRLF, <<LF>>)

(* ------------------------------------------------------------ the files *)
files == <<"entrypoint.sh", "dashboard.sh", "host_agent_unix.sh", "run_unix.sh">>

Names == {files[i] : i \in 1..Len(files)}

Absent == [exists |-> FALSE, data |-> <<>>]
File(d) == [exists |-> TRUE, data |-> d]

\* The states one file can be in with at most b bytes on disk.
FileOpts(b) == {Absent} \cup {File(d) : d \in BSeq(b)}

\* Every directory listing of n files holding at most b bytes in total.
RECURSIVE DirSeqs(_, _)
DirSeqs(n, b) ==
  IF n = 0 THEN {<<>>}
  ELSE UNION {{Append(d, f) : d \in DirSeqs(n - 1, b - Len(f.data))} :
                f \in FileOpts(b)}

filename == files[idx]

\* What a write that faults part-way can leave in the file.
Prefixes(s) == {SubSeq(s, 1, k) : k \in 0..Len(s)}

Notice(kind, name) == [kind |-> kind, name |-> name]
Event(op, name) == [op |-> op, name |-> name]

InitRun(dir) ==
  /\ fs = [n \in Names |-> dir[CHOOSE i \in 1..Len(files) : files[i] = n]]
  /\ orig = fs
  /\ idx = 1
  /\ pc = "exists"
  /\ content = <<>>
  /\ handles = {}
  /\ out = <<>>
  /\ log = <<>>
  /\ status = "running"

Init ==
  /\ \E dir \in DirSeqs(Len(files), MaxBytes) : InitRun(dir)
  /\ input = <<>>
  /\ results = <<>>

Running(at) == status = "running" /\ idx <= Len(files) /\ pc = at

\* if os.path.exists(filename):
Exists ==
  /\ Running("exists")
  /\ pc' = IF fs[filename].exists THEN "print_fixing" ELSE "print_skip"
  /\ log' = Append(log, Event("exists", filename))
  /\ UNCHANGED <<fs, orig, idx, content, handles, out, status, passVars>>

\* print(f"Fixing {filename}...")
PrintFixing ==
  /\ Running("print_fixing")
  /\ out' = Append(out, Notice("Fixing", filename))
  /\ log' = Append(log, Event("Fixing", filename))
  /\ pc' = "open_r"
  /\ UNCHANGED <<fs, orig, idx, content, handles, status, passVars>>

\* with open(filename, 'rb') as f:
OpenRead ==
  /\ Running("open_r")
  /\ handles' = handles \cup {<<filename, "rb">>}
  /\ log' = Append(log, Event("open", filename))
  /\ pc' = "read"
  /\ UNCHANGED <<fs, orig, idx, content, out, status, passVars>>

\* content = f.read()
Read ==
  /\ Running("read")
  /\ content' = fs[filename].data
  /\ log' = Append(log, Event("read", filename))
  /\ pc' = "close_r"
  /\ UNCHANGED <<fs, orig, idx, handles, out, status, passVars>>

\* end of the first with block: the read handle is closed
CloseRead ==
  /\ Running("close_r")
  /\ handles' = handles \ {<<filename, "rb">>}
  /\ log' = Append(log, Event("close", filename))
  /\ pc' = "replace"
  /\ UNCHANGED <<fs, orig, idx, content, out, status, passVars>>

\* content = content.replace(b'\r\n', b'\n')
ReplaceStep ==
  /\ Running("replace")
  /\ content' = Transform(content)
  /\ pc' = "open_w"
  /\ UNCHANGED <<fs, orig, idx, handles, out, log, status, passVars>>

\* with open(filename, 'wb') as f:   (mode 'wb' truncates the file)
OpenWrite ==
  /\ Running("open_w")
  /\ fs' = [fs EXCEPT ![filename] = File(<<>>)]
  /\ handles' = handles \cup {<<filename, "wb">>}
  /\ log' = Append(log, Event("open", filename))
  /\ pc' = "write"
  /\ UNCHANGED <<orig, idx, content, out, status, passVars>>

\* Mutant: the unchanged bytes of the file are written back.
WriteOriginal ==
  /\ Running("write")
  /\ fs' = [fs EXCEPT ![filename] = File(orig[filename].data)]
  /\ log' = Append(log, Event("write", filename))
  /\ pc' = "close_w"
  /\ UNCHANGED <<orig, idx, content, handles, out, status, passVars>>

\* f.write(content)
Write ==
  /\ Running("write")
  /\ fs' = [fs EXCEPT ![filename] = File(content)]
  /\ log' = Append(log, Event("write", filename))
  /\ pc' = "close_w"
  /\ UNCHANGED <<orig, idx, content, handles, out, status, passVars>>

\* Mutant: the write handle is never released.
CloseWriteLeak ==
  /\ Running("close_w")
  /\ log' = Append(log, Event("close", filename))
  /\ pc' = "print_fixed"
  /\ UNCHANGED <<fs, orig, idx, content, handles, out, status, passVars>>

\* end of the second with block: the write handle is closed
CloseWrite ==
  /\ Running("close_w")
  /\ handles' = handles \ {<<filename, "wb">>}
  /\ log' = Append(log, Event("close", filename))
  /\ pc' = "print_fixed"
  /\ UNCHANGED <<fs, orig, idx, content, out, status, passVars>>

\* Mutant: the completion notice is dropped.
PrintFixedSilent ==
  /\ Running("print_fixed")
  /\ idx' = idx + 1
  /\ pc' = "exists"
  /\ UNCHANGED <<fs, orig, content, handles, out, log, status, passVars>>

\* print(f"Fixed {filename}"), then the loop takes the next name
PrintFixed ==
  /\ Running("print_fixed")
  /\ out' = Append(out, Notice("Fixed", filename))
  /\ log' = Append(log, Event("Fixed", filename))
  /\ idx' = idx + 1
  /\ pc' = "exists"
  /\ UNCHANGED <<fs, orig, content, handles, status, passVars>>

\* Mutant: the else branch opens the missing file for writing.
PrintSkipCreates ==
  /\ Running("print_skip")
  /\ fs' = [fs EXCEPT ![filename] = File(<<>>)]
  /\ out' = Append(out, Notice("Skipping", filename))
  /\ log' = Append(Append(log, Event("open", filename)),
                   Event("Skipping", filename))
  /\ idx' = idx + 1
  /\ pc' = "exists"
  /\ UNCHANGED <<orig, content, handles, status, passVars>>

\* Mutant: the script exits as soon as a file is missing.
PrintSkipExits ==
  /\ Running("print_skip")
  /\ out' = Append(out, Notice("Skipping", filename))
  /\ log' = Append(log, Event("Skipping", filename))
  /\ status' = "done"
  /\ UNCHANGED <<fs, orig, idx, pc, content, handles, passVars>>

\* else: print(f"Skipping {filename} (not found)"), then the next name
PrintSkip ==
  /\ Running("print_skip")
  /\ out' = Append(out, Notice("Skipping", filename))
  /\ log' = Append(log, Event("Skipping", filename))
  /\ idx' = idx + 1
  /\ pc' = "exists"
  /\ UNCHANGED <<fs, orig, content, handles, status, passVars>>

\* the for loop is exhausted: the script ends with exit status 0
Exit ==
  /\ status = "running"
  /\ idx > Len(files)
  /\ status' = "done"
  /\ UNCHANGED <<fs, orig, idx, pc, content, handles, out, log, passVars>>

(* ------------------------------------------------ unhandled I/O faults *)
\* open(filename, 'rb') raises: nothing was opened, the script dies.
OpenReadFault ==
  /\ Running("open_r")
  /\ status' = "failed"
  /\ log' = Append(log, Event("fault", filename))
  /\ UNCHANGED <<fs, orig, idx, pc, content, handles, out, passVars>>

\* f.read() raises: the with block closes the handle, the script dies.
ReadFault ==
  /\ Running("read")
  /\ handles' = handles \ {<<filename, "rb">>}
  /\ status' = "failed"
  /\ log' = Append(log, Event("fault", filename))
  /\ UNCHANGED <<fs, orig, idx, pc, content, out, passVars>>

\* open(filename, 'wb') raises: the file was not truncated.
OpenWriteFault ==
  /\ Running("open_w")
  /\ status' = "failed"
  /\ log' = Append(log, Event("fault", filename))
  /\ UNCHANGED <<fs, orig, idx, pc, content, handles, out, passVars>>

\* Mutant: the fault is swallowed and the loop goes on to the next name.
WriteFaultContinues ==
  /\ Running("write")
  /\ \E d \in Prefixes(content) : fs' = [fs EXCEPT ![filename] = File(d)]
  /\ handles' = handles \ {<<filename, "wb">>}
  /\ idx' = idx + 1
  /\ pc' = "exists"
  /\ log' = Append(log, Event("fault", filename))
  /\ UNCHANGED <<orig, content, out, status, passVars>>

\* f.write(content) or the flush on close raises after some bytes were
\* written: the truncated file keeps a prefix of content, the script dies.
WriteFault ==
  /\ Running("write")
  /\ \E d \in Prefixes(content) : fs' = [fs EXCEPT ![filename] = File(d)]
  /\ handles' = handles \ {<<filename, "wb">>}
  /\ status' = "failed"
  /\ log' = Append(log, Event("fault", filename))
  /\ UNCHANGED <<orig, idx, pc, content, out, passVars>>

Step ==
  \/ Exists
  \/ PrintFixing
  \/ OpenRead
  \/ Read
  \/ CloseRead
  \/ ReplaceStep
  \/ OpenWrite
  \/ Write
  \/ CloseWrite
  \/ PrintFixed
  \/ PrintSkip
  \/ Exit

Fault ==
  \/ OpenReadFault
  \/ ReadFault
  \/ OpenWriteFault
  \/ WriteFault

Next == Step \/ Fault

Spec == Init /\ [][Next]_vars

\* The interpreter always executes the next statement of a running script.
FairSpec == Spec /\ WF_vars(Step)

(* ------------------------------------------- the transform, run on its own *)
\* b"line1\r\nline2\r\n" and b"line1\nline2\n"
ScenarioA ==
  <<108, 105, 110, 101, 49, 13, 10, 108, 105, 110, 101, 50, 13, 10>>
ScenarioAFixed ==
  <<108, 105, 110, 101, 49, 10, 108, 105, 110, 101, 50, 10>>
\* b"already\nunix\n"
ScenarioB ==
  <<97, 108, 114, 101, 97, 100, 121, 10, 117, 110, 105, 120, 10>>
\* b"mixed\r\nand\nlone\r" and b"mixed\nand\nlone\r"
ScenarioC ==
  <<109, 105, 120, 101, 100, 13, 10, 97, 110, 100, 10, 108, 111, 110, 101, 13>>
ScenarioCFixed ==
  <<109, 105, 120, 101, 100, 10, 97, 110, 100, 10, 108, 111, 110, 101, 13>>

PassInputs == BSeq(MaxLen) \cup {ScenarioA, ScenarioB, ScenarioC}

\* One file with contents input; results[i + 1] is what the file holds after
\* the tool has been run on it i times.
InitPass ==
  /\ InitRun([i \in 1..Len(files) |-> Absent])
  /\ input \in PassInputs
  /\ results = <<input>>

\* read the bytes, replace, write them back
Pass ==
  /\ Len(results) <= MaxPasses
  /\ results' = Append(results, Transform(results[Len(results)]))
  /\ UNCHANGED <<input, runVars>>

NextPass == Pass

PassSpec == InitPass /\ [][NextPass]_vars

(* ================================================================ claims *)
HasSub(s, sub) ==
  \E i \in 1..(Len(s) - Len(sub) + 1) : SubSeq(s, i, i + Len(sub) - 1) = sub

IsPrefix(p, s) == Len(p) <= Len(s) /\ \A i \in 1..Len(p) : p[i] = s[i]

Pos(name) == CHOOSE i \in 1..Len(files) : files[i] = name

Existing == {n \in Names : orig[n].exists}

\* The scan the specification describes: byte by byte from the left, a CR
\* directly followed by LF gives one LF, any other byte is copied.
RECURSIVE ScanRef(_)
ScanRef(s) ==
  IF s = <<>> THEN <<>>
  ELSE IF Len(s) >= 2 /\ s[1] = CR /\ s[2] = LF
       THEN <<LF>> \o ScanRef(SubSeq(s, 3, Len(s)))
       ELSE <<s[1]>> \o ScanRef(Tail(s))

PairCount(s) == Cardinality({i \in 1..(Len(s) - 1) : s[i] = CR /\ s[i + 1] = LF})

LinesAbout(n) == SelectSeq(out, LAMBDA e : e.name = n)
EventsAbout(n) == SelectSeq(log, LAMBDA e : e.name = n)
Ops(evs) == [i \in 1..Len(evs) |-> evs[i].op]
Faulted == \E i \in 1..Len(log) : log[i].op = "fault"

\* C1 (as stated): a second run of the transform never changes the bytes the
\* first run produced, whatever the input.
C1_Idempotent == Len(results) >= 3 => results[3] = results[2]

\* C1 (amended): for an input with no CR directly followed by CR LF, every
\* run after the first leaves the bytes as the first run left them; for an
\* input that does contain CR CR LF the second run changes them again.
C1_IdempotentWithoutCRCRLF ==
  /\ ~HasSub(input, <<CR, CR, LF>>) =>
       \A i \in 2..(Len(results) - 1) : results[i + 1] = results[i]
  /\ (HasSub(input, <<CR, CR, LF>>) /\ Len(results) >= 3) =>
       results[3] # results[2]

C1_Witness ==
  /\ Len(results) >= 3
  /\ ~HasSub(input, <<CR, CR, LF>>)
  /\ results[2] # input
  /\ results[3] = results[2]

\* C2: the bytes a run leaves are those of the left-to-right scan that turns
\* each CR LF into LF and copies every other byte in order; the three
\* scenarios of the specification give the stated bytes.
C2_Substitution ==
  /\ \A i \in 1..(Len(results) - 1) : results[i + 1] = ScanRef(results[i])
  /\ Len(results) >= 2 =>
       /\ input = ScenarioA => results[2] = ScenarioAFixed
       /\ input = ScenarioB => results[2] = ScenarioB
       /\ input = ScenarioC => results[2] = ScenarioCFixed
       /\ input = <<CR>> => results[2] = <<CR>>
       /\ input = <<LF>> => results[2] = <<LF>>

C2_Witness ==
  /\ Len(results) >= 2
  /\ input = ScenarioC
  /\ results[2] = ScenarioCFixed

\* C3: the output is never longer than the input, and it is shorter by
\* exactly the number of positions where a CR is directly followed by LF.
C3_Length ==
  Len(results) >= 2 =>
    /\ Len(results[2]) <= Len(input)
    /\ Len(input) - Len(results[2]) = PairCount(input)

C3_Witness ==
  /\ Len(results) >= 2
  /\ PairCount(input) = 2
  /\ Len(results[2]) = Len(input) - 2

\* C4: a listed file that is missing is never created, opened, read or
\* written, causes no fault, gets exactly one skip notice once the loop has
\* passed it, and the run is still going while it is the current entry.
C4_SkipOnAbsence ==
  \A k \in 1..Len(files) :
    ~orig[files[k]].exists =>
      /\ ~fs[files[k]].exists
      /\ \A i \in 1..Len(log) :
           log[i].name = files[k] => log[i].op \in {"exists", "Skipping"}
      /\ idx = k => status = "running"
      /\ idx > k => LinesAbout(files[k]) = <<Notice("Skipping", files[k])>>

C4_Witness ==
  /\ status = "done"
  /\ Existing = {}
  /\ Len(out) = Len(files)

\* C5 (as stated): a completed run has written exactly one line per listed
\* file, so as many lines as the list has entries.
C5_OneLinePerFile ==
  status = "done" =>
    /\ Len(out) = Len(files)
    /\ \A n \in Names : Len(LinesAbout(n)) = 1

\* C5 (amended): a completed run has written, for each listed file that is
\* missing, exactly one line (the skip notice), and for each one that exists
\* exactly two (the starting notice, then the completion notice); the number
\* of lines is the number of entries plus the number of existing files.
C5_LinesPerFile ==
  status = "done" =>
    /\ \A n \in Names :
         LinesAbout(n) = IF orig[n].exists
                         THEN <<Notice("Fixing", n), Notice("Fixed", n)>>
                         ELSE <<Notice("Skipping", n)>>
    /\ Len(out) = Len(files) + Cardinality(Existing)

C5_Witness ==
  /\ status = "done"
  /\ Existing # {}
  /\ Existing # Names
  /\ Len(out) = Len(files) + Cardinality(Existing)

HandledOnce ==
  \A n \in Names :
    Cardinality({i \in 1..Len(log) : log[i] = Event("exists", n)}) = 1

\* C6: a run in which no I/O fault occurs ends in the success state with
\* every entry of the list handled exactly once, whichever files exist.
C6_Completion ==
  ([](status # "failed")) => <>(status = "done" /\ HandledOnce)

C6_Witness ==
  /\ status = "done"
  /\ HandledOnce
  /\ Existing # {}
  /\ Existing # Names

C7_State ==
  Faulted =>
    /\ status = "failed"
    /\ log[Len(log)] = Event("fault", filename)
    /\ \A j \in 1..Len(files) :
         LET n == files[j] IN
           /\ (j < idx /\ orig[n].exists) =>
                fs[n] = File(Transform(orig[n].data))
           /\ j > idx => (fs[n] = orig[n] /\ EventsAbout(n) = <<>>)
           /\ j = idx =>
                \/ fs[n] = orig[n]
                \/ fs[n].exists /\ IsPrefix(fs[n].data, Transform(orig[n].data))

\* C7: once an I/O fault has hit the entry at position k the run is in the
\* failure state and takes no further step; the existing files before k hold
\* their transformed bytes, the files after k are untouched and unmentioned,
\* and file k holds its original bytes or a prefix of its transformed bytes.
C7_FatalFault == []C7_State /\ [][~Faulted]_vars

C7_Witness ==
  /\ status = "failed"
  /\ idx >= 2
  /\ orig[files[idx - 1]].exists
  /\ fs[filename].data # orig[filename].data
  /\ fs[filename].data # <<>>
  /\ fs[filename].data # Transform(orig[filename].data)

FixEvents ==
  <<"exists", "Fixing", "open", "read", "close", "open", "write", "close", "Fixed">>

\* C8: the entries are handled in the order of the list, one after the
\* other: every operation on an entry comes after the final notice of the
\* entry before it, a fixed file was read and written in full before its
\* notice, and no two files are open at once.
C8_Sequential ==
  /\ files = <<"entrypoint.sh", "dashboard.sh", "host_agent_unix.sh", "run_unix.sh">>
  /\ Cardinality(handles) <= 1
  /\ log # <<>> => log[1].name = files[1]
  /\ \A i \in 1..(Len(log) - 1) :
       log[i + 1].name # log[i].name =>
         /\ log[i].op \in {"Fixed", "Skipping"}
         /\ Pos(log[i + 1].name) = Pos(log[i].name) + 1
  /\ \A n \in Names :
       LET ops == Ops(EventsAbout(n)) IN
         \/ IsPrefix(ops, FixEvents)
         \/ ops = <<"exists", "Skipping">>
         \/ /\ ops # <<>>
            /\ ops[Len(ops)] = "fault"
            /\ IsPrefix(SubSeq(ops, 1, Len(ops) - 1), FixEvents)

C8_Witness ==
  /\ status = "done"
  /\ Cardinality(Existing) >= 2
  /\ Existing # Names

\* C9: whenever the "Fixed" notice of a file is on the output, the file holds
\* the transform of its original bytes, and its "Fixing" notice was printed
\* earlier, before the file was read.
C9_TruthfulNotice ==
  \A i \in 1..Len(out) :
    out[i].kind = "Fixed" =>
      LET n == out[i].name IN
        /\ fs[n] = File(Transform(orig[n].data))
        /\ \E j \in 1..(i - 1) : out[j] = Notice("Fixing", n)
        /\ \E a, b \in 1..Len(log) :
             /\ a < b
             /\ log[a] = Event("Fixing", n)
             /\ log[b] = Event("read", n)

C9_Witness ==
  \E i \in 1..Len(out) :
    /\ out[i].kind = "Fixed"
    /\ HasSub(orig[out[i].name].data, CRLF)
    /\ fs[out[i].name].data # orig[out[i].name].data

\* C10 (as stated): after a run without fault no listed file that existed
\* holds a CR directly followed by LF.
C10_NoCRLFLeft ==
  status = "done" => \A n \in Existing : ~HasSub(fs[n].data, CRLF)

\* C10 (amended): after a run without fault a listed file that existed
\* holds a CR directly followed by LF exactly when its original bytes held a
\* CR directly followed by CR LF.
C10_CRLFLeftOnlyFromCRCRLF ==
  status = "done" =>
    \A n \in Existing :
      HasSub(fs[n].data, CRLF) <=> HasSub(orig[n].data, <<CR, CR, LF>>)

C10_Witness ==
  /\ status = "done"
  /\ \E n \in Existing :
       /\ HasSub(orig[n].data, CRLF)
       /\ ~HasSub(orig[n].data, <<CR, CR, LF>>)
       /\ ~HasSub(fs[n].data, CRLF)

====
